---- MODULE Spec2Model ----
(***************************************************************************)
(* Relation stores of gen_id_relations: VecRelations (src/vec.rs),         *)
(* RangeRelations (src/range.rs) and MonotypeBipartite (src/lib.rs).       *)
(* A store maps the raw slot of an id to a relation value, ChildOf(parent) *)
(* or ParentOf(children).  insert_parent and insert_child panic on an      *)
(* invariant violation; the store a panicking call leaves behind is part   *)
(* of the state (a panic unwinds, it does not roll back).                  *)
(***************************************************************************)
EXTENDS Naturals, Sequences, FiniteSets

\* ---- bounds ----
MaxId == 2          \* ids are the raw slots 0..MaxId
MaxStale == 1       \* cap on the rejected calls that leave a partial effect
MaxSlot == 3        \* the backing store has the raw slots 0..MaxSlot
MaxQuery == 2       \* longest id sequence handed to parents()
MaxGen == 1         \* a slot is reissued at most MaxGen times

Ids == 0 .. MaxId

\* every raw slot of the backing store; the ids above MaxId are issued only
\* where a run of sequential child ids is needed (SpecRange)
Slots == 0 .. MaxSlot

StoreTypes == {"VecRelations", "RangeRelations", "MonotypeBipartite"}

VARIABLES
    type,     \* which store type the program instantiated
    graph,    \* the store's `values`: raw slot -> relation value or None
    pre,      \* `values` as it was before the last call
    last,     \* the last call: operation, arguments, whether it panicked
    stale,    \* number of calls so far that panicked after changing the store
    query,    \* the id sequence the last call of parents() was given
    found,    \* the ids that call of parents() yielded
    arena,    \* the IdType of the arena E: "Fixed" or "Dynamic"
    gens,     \* allocator: raw slot -> generation of the id now valid there
    wrote,    \* raw slot -> generation of the id its entry was written under
    twin,     \* `values` of a VecRelations store given the same calls
    twin_panicked   \* whether the last call panicked on the twin store

vars == <<type, graph, pre, last, stale, query, found, arena, gens, wrote,
          twin, twin_panicked>>

\* ---- backing store: RawComponent (gen_id_component), a sparse map ----
None == [tag |-> "None"]

RawComponent_default == [i \in Slots |-> None]

RawComponent_get(values, id) == values[id]

RawComponent_insert(values, id, value) == [values EXCEPT ![id] = value]

\* Index panics on a slot with no entry
RawComponent_index_panics(values, id) == values[id] = None

\* ---- relation values ----
ChildOf(p) == [tag |-> "ChildOf", parent |-> p]

ParentOf(c) == [tag |-> "ParentOf", children |-> c]

is_parent(r) == r.tag = "ParentOf"

is_child(r) == r.tag = "ChildOf"

\* src/vec.rs: VecRelation::parent
VecRelation_parent == ParentOf(<< >>)

\* src/lib.rs: Relation::parent
Relation_parent == ParentOf(<< >>)

\* ---- IdRange (gen_id): a contiguous interval [start, end) of raw slots ----
IdRange_default == [start |-> 0, end |-> 0]

IdRange_from(id) == [start |-> id, end |-> id + 1]

IdRange_is_empty(r) == r.start = r.end

IdRange_append(r, id) ==
    IF IdRange_is_empty(r) THEN IdRange_from(id)
    ELSE IF id = r.end THEN [r EXCEPT !.end = id + 1]
    ELSE r

IdRange_len(r) == r.end - r.start

IdRange_ids(r) == {i \in Slots : r.start <= i /\ i < r.end}

\* src/range.rs: RangeRelation::parent
RangeRelation_parent == ParentOf(IdRange_default)

\* ---- result of a call: the store it leaves and whether it panicked ----
Ok(values) == [values |-> values, panicked |-> FALSE]

Panic(values) == [values |-> values, panicked |-> TRUE]

\* ---- src/vec.rs ----
\* faulty variant: an existing entry is overwritten instead of rejected
VecRelations_insert_overwrite(values, id, relation) ==
    Ok(RawComponent_insert(values, id, relation))

\* faulty variant: the entry is written one slot off
VecRelations_insert_shifted(values, id, relation) ==
    IF RawComponent_get(values, id) = None
    THEN Ok(RawComponent_insert(values, (id + 1) % (MaxSlot + 1), relation))
    ELSE Panic(values)

VecRelations_insert_if_empty(values, id, relation) ==
    IF RawComponent_get(values, id) = None
    THEN Ok(RawComponent_insert(values, id, relation))
    ELSE Panic(values)

\* faulty variant: a new parent starts out with itself as a child
VecRelations_insert_parent_nonempty(values, id) ==
    VecRelations_insert_if_empty(values, id, ParentOf(<< id >>))

VecRelations_insert_parent(values, id) ==
    VecRelations_insert_if_empty(values, id, VecRelation_parent)

\* faulty variant: a child may be attached under an id that has no entry
VecRelations_insert_child_absent_parent(values, id, parent) ==
    IF RawComponent_index_panics(values, parent)
    THEN VecRelations_insert_if_empty(values, id, ChildOf(parent))
    ELSE IF is_parent(values[parent])
    THEN LET pushed == [values EXCEPT ![parent].children = Append(@, id)]
         IN  VecRelations_insert_if_empty(pushed, id, ChildOf(parent))
    ELSE Panic(values)

\* faulty variant: a child may be attached under another child
VecRelations_insert_child_under_child(values, id, parent) ==
    IF RawComponent_index_panics(values, parent) THEN Panic(values)
    ELSE IF is_parent(values[parent])
    THEN LET pushed == [values EXCEPT ![parent].children = Append(@, id)]
         IN  VecRelations_insert_if_empty(pushed, id, ChildOf(parent))
    ELSE VecRelations_insert_if_empty(values, id, ChildOf(parent))

\* faulty variant: the child's entry is checked before the parent is touched
VecRelations_insert_child_checked(values, id, parent) ==
    IF RawComponent_index_panics(values, parent) THEN Panic(values)
    ELSE IF is_parent(values[parent])
    THEN IF RawComponent_get(values, id) # None THEN Panic(values)
         ELSE LET pushed ==
                      [values EXCEPT ![parent].children = Append(@, id)]
              IN  VecRelations_insert_if_empty(pushed, id, ChildOf(parent))
    ELSE Panic(values)

\* faulty variant: the child is pushed at the front of the collection
VecRelations_insert_child_front(values, id, parent) ==
    IF RawComponent_index_panics(values, parent) THEN Panic(values)
    ELSE IF is_parent(values[parent])
    THEN LET pushed == [values EXCEPT ![parent].children = << id >> \o @]
         IN  VecRelations_insert_if_empty(pushed, id, ChildOf(parent))
    ELSE Panic(values)

VecRelations_insert_child(values, id, parent) ==
    IF RawComponent_index_panics(values, parent) THEN Panic(values)
    ELSE IF is_parent(values[parent])
    THEN LET pushed == [values EXCEPT ![parent].children = Append(@, id)]
         IN  VecRelations_insert_if_empty(pushed, id, ChildOf(parent))
    ELSE Panic(values)

\* ---- src/range.rs ----
\* faulty variant: an existing entry is overwritten instead of rejected
RangeRelations_insert_overwrite(values, id, relation) ==
    Ok(RawComponent_insert(values, id, relation))

RangeRelations_insert_if_empty(values, id, relation) ==
    IF RawComponent_get(values, id) = None
    THEN Ok(RawComponent_insert(values, id, relation))
    ELSE Panic(values)

RangeRelations_insert_parent(values, id) ==
    RangeRelations_insert_if_empty(values, id, RangeRelation_parent)

\* faulty variant: the tag of the parent's entry is not checked
RangeRelations_insert_child_any_parent(values, id, parent) ==
    IF RawComponent_index_panics(values, parent) THEN Panic(values)
    ELSE IF is_parent(values[parent])
    THEN LET appended ==
                 [values EXCEPT ![parent].children = IdRange_append(@, id)]
         IN  RangeRelations_insert_if_empty(appended, id, ChildOf(parent))
    ELSE RangeRelations_insert_if_empty(values, id, ChildOf(parent))

\* faulty variant: the parent's interval is restarted at the new child
RangeRelations_insert_child_restart(values, id, parent) ==
    IF RawComponent_index_panics(values, parent) THEN Panic(values)
    ELSE IF is_parent(values[parent])
    THEN LET appended ==
                 [values EXCEPT ![parent].children = IdRange_from(id)]
         IN  RangeRelations_insert_if_empty(appended, id, ChildOf(parent))
    ELSE Panic(values)

\* faulty variant: the interval's end is moved on whatever the child's slot
RangeRelations_insert_child_blind(values, id, parent) ==
    IF RawComponent_index_panics(values, parent) THEN Panic(values)
    ELSE IF is_parent(values[parent])
    THEN LET appended ==
                 [values EXCEPT ![parent].children =
                     IF IdRange_is_empty(@) THEN IdRange_from(id)
                     ELSE [@ EXCEPT !.end = @ + 1]]
         IN  RangeRelations_insert_if_empty(appended, id, ChildOf(parent))
    ELSE Panic(values)

RangeRelations_insert_child(values, id, parent) ==
    IF RawComponent_index_panics(values, parent) THEN Panic(values)
    ELSE IF is_parent(values[parent])
    THEN LET appended ==
                 [values EXCEPT ![parent].children = IdRange_append(@, id)]
         IN  RangeRelations_insert_if_empty(appended, id, ChildOf(parent))
    ELSE Panic(values)

\* parents(): the lazy filter, drained from position k of ids; the lookup
\* self[id] of an id with no entry panics and ends the iteration
RECURSIVE RangeRelations_parents_from(_, _, _)
RangeRelations_parents_from(values, ids, k) ==
    IF k > Len(ids) THEN [items |-> << >>, panicked |-> FALSE]
    ELSE IF RawComponent_index_panics(values, ids[k])
    THEN [items |-> << >>, panicked |-> TRUE]
    ELSE LET rest == RangeRelations_parents_from(values, ids, k + 1)
         IN  IF is_parent(values[ids[k]])
             THEN [items |-> << ids[k] >> \o rest.items,
                   panicked |-> rest.panicked]
             ELSE rest

\* faulty variant: the filter matches ChildOf where it should match ParentOf
RangeRelations_parents_children(values, ids) ==
    LET keep(i) == is_child(values[i])
    IN  [items |-> SelectSeq(ids, keep),
         panicked |-> \E k \in 1 .. Len(ids) : values[ids[k]] = None]

RangeRelations_parents(values, ids) ==
    RangeRelations_parents_from(values, ids, 1)

\* ---- src/lib.rs ----
\* faulty variant: an existing entry is overwritten instead of rejected
MonotypeBipartite_insert_overwrite(values, id, relation) ==
    Ok(RawComponent_insert(values, id, relation))

MonotypeBipartite_insert_if_empty(values, id, relation) ==
    IF RawComponent_get(values, id) = None
    THEN Ok(RawComponent_insert(values, id, relation))
    ELSE Panic(values)

MonotypeBipartite_insert_parent(values, id) ==
    MonotypeBipartite_insert_if_empty(values, id, Relation_parent)

\* faulty variant: the child is pushed at the front of the collection
MonotypeBipartite_insert_child_front(values, id, parent) ==
    IF RawComponent_index_panics(values, parent) THEN Panic(values)
    ELSE IF is_parent(values[parent])
    THEN LET pushed == [values EXCEPT ![parent].children = << id >> \o @]
         IN  MonotypeBipartite_insert_if_empty(pushed, id, ChildOf(parent))
    ELSE Panic(values)

\* faulty variant: the child's entry is written before the parent is matched
MonotypeBipartite_insert_child_entry_first(values, id, parent) ==
    LET r == MonotypeBipartite_insert_if_empty(values, id, ChildOf(parent))
    IN  IF r.panicked THEN r
        ELSE IF RawComponent_index_panics(r.values, parent)
        THEN Panic(r.values)
        ELSE IF is_parent(r.values[parent])
        THEN Ok([r.values EXCEPT ![parent].children = Append(@, id)])
        ELSE Panic(r.values)

MonotypeBipartite_insert_child(values, id, parent) ==
    IF RawComponent_index_panics(values, parent) THEN Panic(values)
    ELSE IF is_parent(values[parent])
    THEN LET pushed == [values EXCEPT ![parent].children = Append(@, id)]
         IN  MonotypeBipartite_insert_if_empty(pushed, id, ChildOf(parent))
    ELSE Panic(values)

\* ---- the arenas a store type can be instantiated with (impl bounds) ----
\* src/vec.rs: impl<E: Entity> VecRelations<E>
VecRelations_accepts(idtype) == TRUE

\* src/range.rs: impl<E: Entity<IdType = Fixed>> RangeRelations<E>
RangeRelations_accepts(idtype) == idtype = "Fixed"

\* src/lib.rs: impl<Arena: Fixed> MonotypeBipartite<Arena>
MonotypeBipartite_accepts(idtype) == idtype = "Fixed"

Accepts(t, idtype) ==
    CASE t = "VecRelations" -> VecRelations_accepts(idtype)
      [] t = "RangeRelations" -> RangeRelations_accepts(idtype)
      [] t = "MonotypeBipartite" -> MonotypeBipartite_accepts(idtype)

\* ---- the state machine ----
NoCall == [op |-> "none", id |-> 0, parent |-> 0, panicked |-> FALSE]

Call(op, id, parent, r) ==
    [op |-> op, id |-> id, parent |-> parent, panicked |-> r.panicked]

\* the call panicked after it had already changed the store
PartialEffect(values, r) == r.panicked /\ r.values # values

\* rejected calls may repeat without end; explore at most MaxStale of those
\* that leave a partial effect behind
Room(values, r) == PartialEffect(values, r) => stale < MaxStale

Init ==
    /\ type \in StoreTypes
    /\ graph = RawComponent_default
    /\ pre = RawComponent_default
    /\ last = NoCall
    /\ stale = 0
    /\ query = << >>
    /\ found = << >>
    /\ arena = "Fixed"
    /\ gens = [s \in Slots |-> 0]
    /\ wrote = [s \in Slots |-> 0]
    /\ twin = RawComponent_default
    /\ twin_panicked = FALSE

Step(op, id, parent, r) ==
    /\ Room(graph, r)
    /\ graph' = r.values
    /\ pre' = graph
    /\ stale' = IF PartialEffect(graph, r) THEN stale + 1 ELSE stale
    /\ last' = Call(op, id, parent, r)
    /\ query' = << >>
    /\ found' = << >>
    /\ wrote' = [s \in Slots |->
                    IF graph[s] = None /\ r.values[s] # None
                    THEN gens[s] ELSE wrote[s]]
    /\ UNCHANGED <<type, arena, gens, twin, twin_panicked>>

VecInsertParent(id) ==
    /\ type = "VecRelations"
    /\ Step("insert_parent", id, id, VecRelations_insert_parent(graph, id))

VecInsertChild(id, parent) ==
    /\ type = "VecRelations"
    /\ Step("insert_child", id, parent,
            VecRelations_insert_child(graph, id, parent))

RangeInsertParent(id) ==
    /\ type = "RangeRelations"
    /\ Step("insert_parent", id, id, RangeRelations_insert_parent(graph, id))

RangeInsertChild(id, parent) ==
    /\ type = "RangeRelations"
    /\ Step("insert_child", id, parent,
            RangeRelations_insert_child(graph, id, parent))

MonoInsertParent(id) ==
    /\ type = "MonotypeBipartite"
    /\ Step("insert_parent", id, id,
            MonotypeBipartite_insert_parent(graph, id))

MonoInsertChild(id, parent) ==
    /\ type = "MonotypeBipartite"
    /\ Step("insert_child", id, parent,
            MonotypeBipartite_insert_child(graph, id, parent))

Next ==
    \/ \E id \in Ids : VecInsertParent(id)
    \/ \E id \in Ids, parent \in Ids : VecInsertChild(id, parent)
    \/ \E id \in Ids : RangeInsertParent(id)
    \/ \E id \in Ids, parent \in Ids : RangeInsertChild(id, parent)
    \/ \E id \in Ids : MonoInsertParent(id)
    \/ \E id \in Ids, parent \in Ids : MonoInsertChild(id, parent)

Spec == Init /\ [][Next]_vars

\* the RangeRelations store alone, on every slot of the backing store
InitRange == Init /\ type = "RangeRelations"

NextRange ==
    \/ \E id \in Slots : RangeInsertParent(id)
    \/ \E id \in Slots, parent \in Slots : RangeInsertChild(id, parent)

SpecRange == InitRange /\ [][NextRange]_vars

\* the id sequences parents() is given
Queries == UNION {[1 .. n -> Ids] : n \in 0 .. MaxQuery}

\* parents() reads tags only, and neither a call that panicked nor a query
\* has changed a tag: the query is explored on the stores that the inserts
\* that returned have built
RangeParents(ids) ==
    /\ type = "RangeRelations"
    /\ ~last.panicked
    /\ last.op # "parents"
    /\ LET r == RangeRelations_parents(graph, ids)
       IN  /\ found' = r.items
           /\ last' = [op |-> "parents", id |-> 0, parent |-> 0,
                       panicked |-> r.panicked]
    /\ query' = ids
    /\ pre' = graph
    /\ UNCHANGED <<type, graph, stale, arena, gens, wrote, twin, twin_panicked>>

\* the RangeRelations store with its parents() query
NextParents ==
    \/ \E id \in Ids : RangeInsertParent(id)
    \/ \E id \in Ids, parent \in Ids : RangeInsertChild(id, parent)
    \/ \E ids \in Queries : RangeParents(ids)

SpecParents == InitRange /\ [][NextParents]_vars

\* a reclaiming allocator kills the id of a slot and issues the slot again
\* under the next generation; the store has no unlinking, the entry stays
Recycle(slot) ==
    /\ arena = "Dynamic"
    /\ gens[slot] < MaxGen
    /\ gens' = [gens EXCEPT ![slot] = @ + 1]
    /\ last' = [op |-> "recycle", id |-> slot, parent |-> slot,
                panicked |-> FALSE]
    /\ pre' = graph
    /\ UNCHANGED <<type, graph, stale, query, found, arena, wrote,
                   twin, twin_panicked>>

\* every store type on every arena its impl block compiles for
InitArena ==
    /\ type \in StoreTypes
    /\ arena \in {"Fixed", "Dynamic"}
    /\ Accepts(type, arena)
    /\ graph = RawComponent_default
    /\ pre = RawComponent_default
    /\ last = NoCall
    /\ stale = 0
    /\ query = << >>
    /\ found = << >>
    /\ gens = [s \in Slots |-> 0]
    /\ wrote = [s \in Slots |-> 0]
    /\ twin = RawComponent_default
    /\ twin_panicked = FALSE

NextArena ==
    \/ Next
    \/ \E slot \in Ids : Recycle(slot)

SpecArena == InitArena /\ [][NextArena]_vars

\* ---- a RangeRelations store (graph) and a VecRelations store (twin)
\* ---- given the same calls
PairStep(op, id, parent, r, v) ==
    /\ (PartialEffect(graph, r) \/ PartialEffect(twin, v)) => stale < MaxStale
    /\ graph' = r.values
    /\ twin' = v.values
    /\ twin_panicked' = v.panicked
    /\ pre' = graph
    /\ stale' = IF PartialEffect(graph, r) \/ PartialEffect(twin, v)
                THEN stale + 1 ELSE stale
    /\ last' = Call(op, id, parent, r)
    /\ query' = << >>
    /\ found' = << >>
    /\ wrote' = [s \in Slots |->
                    IF graph[s] = None /\ r.values[s] # None
                    THEN gens[s] ELSE wrote[s]]
    /\ UNCHANGED <<type, arena, gens>>

\* the ids attached under parent so far
children_of(values, parent) ==
    {i \in Slots : values[i] = ChildOf(parent)}

\* the caller attaches each parent's children with consecutive increasing
\* raw ids: a child that the call attaches is the first of its parent or
\* one above the last one attached
Sequential(id, parent) ==
    (is_parent(twin[parent]) /\ twin[id] = None) =>
        \A i \in children_of(twin, parent) :
            \/ i + 1 = id
            \/ \E j \in children_of(twin, parent) : j > i

PairInsertParent(id) ==
    /\ type = "RangeRelations"
    /\ PairStep("insert_parent", id, id,
                RangeRelations_insert_parent(graph, id),
                VecRelations_insert_parent(twin, id))

PairInsertChild(id, parent) ==
    /\ type = "RangeRelations"
    /\ Sequential(id, parent)
    /\ PairStep("insert_child", id, parent,
                RangeRelations_insert_child(graph, id, parent),
                VecRelations_insert_child(twin, id, parent))

NextPair ==
    \/ \E id \in Ids : PairInsertParent(id)
    \/ \E id \in Ids, parent \in Ids : PairInsertChild(id, parent)

SpecPair == InitRange /\ [][NextPair]_vars

Ordered == type \in {"VecRelations", "MonotypeBipartite"}

\* the child collection of a ParentOf value holds nothing
no_children(c) == IF Ordered THEN Len(c) = 0 ELSE IdRange_is_empty(c)

\* the ids a child collection holds
members(c) ==
    IF Ordered THEN {c[k] : k \in 1 .. Len(c)} ELSE IdRange_ids(c)

\* the value parent() builds for the store type in use
parent_value ==
    CASE type = "VecRelations" -> VecRelation_parent
      [] type = "RangeRelations" -> RangeRelation_parent
      [] type = "MonotypeBipartite" -> Relation_parent

IsPrefix(s, t) == Len(s) <= Len(t) /\ \A k \in 1 .. Len(s) : s[k] = t[k]

InsertedParent == last.op = "insert_parent"

InsertedChild == last.op = "insert_child"

\* ---- properties ----

\* C1: insert_parent(p) on an id p with no entry is accepted, and afterwards
\* store[p] is a Parent value with an empty child collection, equal to the
\* value parent() builds.
C1_InsertParentStoresEmptyParent ==
    (InsertedParent /\ pre[last.id] = None) =>
        /\ ~last.panicked
        /\ is_parent(graph[last.id])
        /\ no_children(graph[last.id].children)
        /\ graph[last.id] = parent_value

\* insert_parent has just run on an absent id while another id had an entry
C1_Witness ==
    /\ InsertedParent
    /\ pre[last.id] = None
    /\ \E i \in Ids : pre[i] # None

\* C2: ordered stores: insert_child(c, p) with p holding Parent(L) and c
\* absent is accepted, and afterwards store[p] = Parent(L followed by c) and
\* store[c] = Child(p); with L empty, store[p] = Parent([c]).
C2_InsertChildAppends ==
    (/\ Ordered
     /\ InsertedChild
     /\ is_parent(pre[last.parent])
     /\ pre[last.id] = None) =>
        /\ ~last.panicked
        /\ graph[last.parent] =
               ParentOf(Append(pre[last.parent].children, last.id))
        /\ graph[last.id] = ChildOf(last.parent)
        /\ (pre[last.parent] = ParentOf(<< >>) =>
               graph[last.parent] = ParentOf(<< last.id >>))

\* insert_child has just run on an absent child under a parent that already
\* had a child
C2_Witness ==
    /\ Ordered
    /\ InsertedChild
    /\ is_parent(pre[last.parent])
    /\ Len(pre[last.parent].children) >= 1
    /\ pre[last.id] = None

\* C3: in every reachable state, accepted and rejected calls alike, every
\* id whose entry is Child(p) has a p whose entry is a Parent value.
C3_ChildHasParent ==
    \A c \in Ids :
        is_child(graph[c]) =>
            /\ graph[c].parent \in Ids
            /\ is_parent(graph[graph[c].parent])

\* a call was rejected in a store that holds a child
C3_Witness ==
    /\ last.panicked
    /\ \E c \in Ids : is_child(graph[c])

\* C4: in every reachable state, rejected calls included, every id inside
\* the child collection of p's Parent entry holds Child(p).
C4_ListedChildHoldsChildEntry ==
    \A p \in Ids :
        is_parent(graph[p]) =>
            \A i \in members(graph[p].children) : graph[i] = ChildOf(p)

\* C5: per-id state machine: an absent id becomes Parent only by
\* insert_parent on it and Child only by insert_child on it; an id holding
\* Parent holds Parent after every step, an id holding Child(p) holds the
\* same Child(p) after every step, and no entry is removed.
C5_Transition(i) ==
    /\ graph[i] = None =>
           \/ graph'[i] = None
           \/ /\ is_parent(graph'[i])
              /\ last'.op = "insert_parent" /\ last'.id = i
           \/ /\ is_child(graph'[i])
              /\ last'.op = "insert_child" /\ last'.id = i
    /\ is_parent(graph[i]) => is_parent(graph'[i])
    /\ is_child(graph[i]) => graph'[i] = graph[i]

C5_RolesArePermanent == [][\A i \in Ids : C5_Transition(i)]_vars

\* insert_parent has just been tried on an id that holds Child, in a store
\* where a parent has already been given a child
C5_Witness ==
    /\ InsertedParent
    /\ is_child(pre[last.id])
    /\ \E i \in Ids : is_parent(pre[i]) /\ graph[i] # parent_value

\* C6: insert_child(c, p) when p has no entry is an invariant violation and
\* creates no entry for c and none for p.
C6_AbsentParentRejected ==
    (InsertedChild /\ pre[last.parent] = None) =>
        /\ last.panicked
        /\ graph[last.parent] = None
        /\ (pre[last.id] = None => graph[last.id] = None)

\* insert_child has just run with an absent child under an absent parent
C6_Witness ==
    /\ InsertedChild
    /\ pre[last.parent] = None
    /\ pre[last.id] = None
    /\ last.id # last.parent

\* C7: insert_parent(p) on an id that already has an entry, Parent or Child,
\* is an invariant violation and leaves the whole store unchanged.
C7_InsertParentOverEntryRejected ==
    (InsertedParent /\ pre[last.id] # None) =>
        /\ last.panicked
        /\ graph = pre

\* insert_parent has just run on an id that holds Child
C7_Witness ==
    /\ InsertedParent
    /\ is_child(pre[last.id])

\* C8: insert_child(c2, c1) where c1 holds Child is an invariant violation;
\* c2 receives no entry and every entry, c1's included, is unchanged.
C8_ChildUnderChildRejected ==
    (InsertedChild /\ is_child(pre[last.parent])) =>
        /\ last.panicked
        /\ graph = pre

\* insert_child has just run with an absent child under an id holding Child
C8_Witness ==
    /\ InsertedChild
    /\ is_child(pre[last.parent])
    /\ pre[last.id] = None

\* C9: insert_child(c, p) where p holds Parent and c already has an entry is
\* an invariant violation, and c's entry is not replaced by Child(p): c keeps
\* its role, and keeps its very entry when c is not p itself.
C9_InsertChildOverEntryRejected ==
    (/\ InsertedChild
     /\ is_parent(pre[last.parent])
     /\ pre[last.id] # None) =>
        /\ last.panicked
        /\ graph[last.id].tag = pre[last.id].tag
        /\ (last.id # last.parent => graph[last.id] = pre[last.id])
        /\ (graph[last.id] = ChildOf(last.parent) =>
               pre[last.id] = ChildOf(last.parent))

\* insert_child has just run with a child that holds Parent under another
\* parent
C9_Witness ==
    /\ InsertedChild
    /\ is_parent(pre[last.parent])
    /\ is_parent(pre[last.id])
    /\ last.id # last.parent

\* C10: the store grows monotonically: an id with an entry keeps an entry, a
\* Child entry is never changed, a Parent entry stays a Parent entry, and in
\* the ordered stores a parent's child sequence is a prefix of the sequence
\* it holds after every step.
C10_Grows(i) ==
    /\ graph[i] # None => graph'[i] # None
    /\ is_child(graph[i]) => graph'[i] = graph[i]
    /\ is_parent(graph[i]) =>
           /\ is_parent(graph'[i])
           /\ Ordered => IsPrefix(graph[i].children, graph'[i].children)

C10_MonotoneGrowth == [][\A i \in Ids : C10_Grows(i)]_vars

\* a second child has just been attached to a parent of an ordered store
C10_Witness ==
    /\ Ordered
    /\ InsertedChild
    /\ ~last.panicked
    /\ Len(pre[last.parent].children) >= 1
    /\ Len(graph[last.parent].children) >= 2

\* C11: RangeRelations: an accepted insert_child(c, p) on a parent without
\* children leaves store[p] = Parent([c, c+1)), and one on a parent whose
\* interval ends at c leaves it the same interval grown by one; so after
\* insert_parent(p) and children c, c+1, c+2, store[p] is the single
\* interval [c, c+3) of length 3, one start and one end whatever the number
\* of children, and each of the three ids holds Child(p).
C11_SequentialChildrenOneRange ==
    (type = "RangeRelations" /\ InsertedChild /\ ~last.panicked) =>
        LET r == pre[last.parent].children
            c == last.id
            p == last.parent
        IN  /\ graph[c] = ChildOf(p)
            /\ IdRange_is_empty(r) =>
                   graph[p] = ParentOf([start |-> c, end |-> c + 1])
            /\ (~IdRange_is_empty(r) /\ r.end = c) =>
                   graph[p] = ParentOf([start |-> r.start, end |-> c + 1])
            /\ (stale = 0 /\ r.end = c /\ r.start + 2 = c) =>
                   /\ IdRange_len(graph[p].children) = 3
                   /\ DOMAIN graph[p].children = {"start", "end"}
                   /\ \A i \in r.start .. c : graph[i] = ChildOf(p)

\* the third of three sequential children has just been attached to a parent
\* by accepted calls
C11_Witness ==
    /\ type = "RangeRelations"
    /\ InsertedChild
    /\ ~last.panicked
    /\ stale = 0
    /\ last.id >= 2
    /\ pre[last.parent].children = [start |-> last.id - 2, end |-> last.id]
    /\ graph[last.parent].children =
           [start |-> last.id - 2, end |-> last.id + 1]

\* C12: RangeRelations: insert_child(c, p) on a parent p grows p's interval
\* by one only when c is the slot at the interval's end, or the interval is
\* empty; for any other c the interval is left as it was, so it claims no id
\* it did not claim before; the only id an insert_child can add to the
\* interval is c, which an accepted call makes Child(p).
C12_IntervalGrowsOnlyAtEnd ==
    (type = "RangeRelations" /\ InsertedChild
        /\ is_parent(pre[last.parent])) =>
        LET r == pre[last.parent].children
            r2 == graph[last.parent].children
            c == last.id
        IN  /\ r2 # r =>
                   /\ IdRange_is_empty(r) \/ c = r.end
                   /\ IdRange_len(r2) = IdRange_len(r) + 1
            /\ (~IdRange_is_empty(r) /\ c # r.end) => r2 = r
            /\ IdRange_ids(r2) \ IdRange_ids(r) \subseteq {c}
            /\ ~last.panicked =>
                   \A i \in IdRange_ids(r2) \ IdRange_ids(r) :
                       graph[i] = ChildOf(last.parent)

\* a child whose slot is not the end of its parent's interval has just been
\* attached
C12_Witness ==
    /\ type = "RangeRelations"
    /\ InsertedChild
    /\ ~last.panicked
    /\ is_parent(pre[last.parent])
    /\ ~IdRange_is_empty(pre[last.parent].children)
    /\ last.id # pre[last.parent].children.end

\* the input ids whose entry is Parent, in input order, duplicates kept
ParentSubsequence(values, ids) ==
    LET holds_parent(i) == is_parent(values[i])
    IN  SelectSeq(ids, holds_parent)

CalledParents == last.op = "parents"

\* C13 as stated: parents(ids) returns exactly the subsequence of the input
\* ids whose entry is Parent, for any mix of parent-, child- and
\* absent-tagged ids, and does not change the store.
C13_ParentsOfAnyIds ==
    CalledParents =>
        /\ ~last.panicked
        /\ found = ParentSubsequence(graph, query)
        /\ graph = pre

\* C13 amended: when every input id has an entry, parents(ids) returns
\* exactly the subsequence of the input ids whose entry is Parent, in input
\* order and with duplicates kept, and does not change the store; when an
\* input id has no entry the lookup of it panics, after the parents before
\* it have been yielded, and the store is unchanged as well.
C13_ParentsOfEnteredIds ==
    CalledParents =>
        LET absent == {k \in 1 .. Len(query) : graph[query[k]] = None}
        IN  /\ graph = pre
            /\ absent = {} =>
                   /\ ~last.panicked
                   /\ found = ParentSubsequence(graph, query)
            /\ absent # {} =>
                   /\ last.panicked
                   /\ LET k == CHOOSE x \in absent : \A y \in absent : x <= y
                      IN  found =
                            ParentSubsequence(graph, SubSeq(query, 1, k - 1))

\* parents() has just been given a parent and a child, both with entries
C13_Witness ==
    /\ CalledParents
    /\ Len(query) >= 2
    /\ \A k \in 1 .. Len(query) : graph[query[k]] # None
    /\ \E k \in 1 .. Len(query) : is_parent(graph[query[k]])
    /\ \E k \in 1 .. Len(query) : is_child(graph[query[k]])

\* C14: every store type takes insertions only on a non-reclaiming (Fixed)
\* arena, so that the id (slot, generation) an insert is called with never
\* meets an entry that was written under another generation of its slot.
C14_NoStaleEntryUnderId ==
    (InsertedParent \/ InsertedChild) =>
        \A s \in {last.id, last.parent} :
            pre[s] # None => wrote[s] = gens[s]

\* the collection a parent holds once insert_child has handed it the child
with_child(c, id) == IF Ordered THEN Append(c, id) ELSE IdRange_append(c, id)

RejectedOverEntry ==
    /\ InsertedChild
    /\ is_parent(pre[last.parent])
    /\ pre[last.id] # None

\* C15 as stated: insert_child(c, p) with p holding Parent and c already
\* holding an entry is rejected, but p's collection has had c appended, so
\* the state after the rejected call differs from the state before it.
C15_RejectedCallChangesStore ==
    RejectedOverEntry =>
        /\ last.panicked
        /\ graph[last.parent].children =
               with_child(pre[last.parent].children, last.id)
        /\ graph # pre

\* C15 amended: the call is rejected after p's collection has been handed c
\* and nothing but p's entry can have changed; in the ordered stores the
\* state after the call always differs from the state before it (c is the
\* new last element of p's sequence), in RangeRelations it differs exactly
\* when p's interval was empty or ended at c.
C15_RejectedCallPartialEffect ==
    RejectedOverEntry =>
        LET r == pre[last.parent].children
        IN  /\ last.panicked
            /\ graph[last.parent].children = with_child(r, last.id)
            /\ \A i \in Slots : i # last.parent => graph[i] = pre[i]
            /\ Ordered =>
                   /\ graph # pre
                   /\ graph[last.parent].children = r \o << last.id >>
            /\ ~Ordered =>
                   (graph # pre <=> (IdRange_is_empty(r) \/ last.id = r.end))

\* RangeRelations has just rejected a child that holds an entry and is not
\* at the end of the parent's interval: the store is as it was
C15_Witness ==
    /\ RejectedOverEntry
    /\ ~Ordered
    /\ last.panicked
    /\ graph = pre

RECURSIVE TotalChildren(_, _)
\* the summed length of the child sequences of the parents among S
TotalChildren(values, S) ==
    IF S = {} THEN 0
    ELSE LET i == CHOOSE x \in S : TRUE
         IN  (IF is_parent(values[i]) THEN Len(values[i].children) ELSE 0)
             + TotalChildren(values, S \ {i})

Occurrences(seq, id) == Cardinality({k \in 1 .. Len(seq) : seq[k] = id})

\* C16: ordered stores, in a state no rejected call has left a mark on
\* (built by accepted calls; a rejected call without effect changes nothing):
\* every id holding Child(p) occurs exactly once in p's sequence and in no
\* other parent's, no sequence has a duplicate, and the summed length of the
\* sequences is the number of Child entries.
C16_ChildrenListedOnce ==
    (Ordered /\ stale = 0) =>
        /\ \A c \in Slots :
               is_child(graph[c]) =>
                   /\ is_parent(graph[graph[c].parent])
                   /\ Occurrences(graph[graph[c].parent].children, c) = 1
                   /\ \A q \in Slots :
                          (is_parent(graph[q]) /\ q # graph[c].parent) =>
                              Occurrences(graph[q].children, c) = 0
        /\ \A p \in Slots :
               is_parent(graph[p]) =>
                   \A id \in Slots : Occurrences(graph[p].children, id) <= 1
        /\ TotalChildren(graph, Slots) =
               Cardinality({c \in Slots : is_child(graph[c])})

\* an ordered store whose parent has been given two children by accepted
\* calls
C16_Witness ==
    /\ Ordered
    /\ stale = 0
    /\ InsertedChild
    /\ ~last.panicked
    /\ Len(graph[last.parent].children) = 2

C18_Frame ==
    /\ (InsertedParent /\ ~last.panicked) =>
           \A i \in Slots : i # last.id => graph[i] = pre[i]
    /\ (InsertedChild /\ ~last.panicked) =>
           \A i \in Slots :
               i \notin {last.id, last.parent} => graph[i] = pre[i]

\* an insert has been accepted in a store where a third id holds an entry
C18_Witness ==
    /\ InsertedParent \/ InsertedChild
    /\ ~last.panicked
    /\ \E i \in Slots :
           /\ i \notin {last.id, last.parent}
           /\ pre[i] # None

\* the ids of an interval, in increasing order
IdRange_seq(r) == [k \in 1 .. IdRange_len(r) |-> r.start + k - 1]

\* C19: given the same calls, with every parent's children attached with
\* consecutive increasing raw ids, the RangeRelations store and the
\* VecRelations store accept and reject the same calls, every id has the
\* same tag and the same parent in both, and every parent's interval
\* enumerates the ids of its ordered child sequence in the same order.
C19_StoresAgree ==
    /\ last.panicked = twin_panicked
    /\ \A i \in Slots :
           /\ graph[i].tag = twin[i].tag
           /\ is_child(graph[i]) => graph[i] = twin[i]
           /\ is_parent(graph[i]) =>
                  IdRange_seq(graph[i].children) = twin[i].children

\* the agreement of the two stores while no rejected call has left a mark
C19_AgreeWithoutPartialEffect == stale = 0 => C19_StoresAgree

====
